---- MODULE Spec2Model ----
(***************************************************************************)
(* SpringMassSystem (src/main.py): a damped spring-mass oscillator stepped *)
(* by the animation callback update(), with slider callbacks that store    *)
(* the parameters, a reset button, and a mouse-move cursor over the        *)
(* recorded velocity trace.                                                *)
(*                                                                         *)
(* Numbers.  The source computes in floats; the model computes in fixed    *)
(* point, rounding every division toward minus infinity:                   *)
(*   mass, resilience, damping, time_modifier   tenths  (1.0  -> 10)       *)
(*   current_time, dt, sample times, xdata      ms      (0.02 -> 20)       *)
(*   x_position, velocity, acceleration         1/1000  (2.0  -> 2000)     *)
(* Float rounding of individual operations is therefore not represented.   *)
(***************************************************************************)
EXTENDS Integers, Sequences, FiniteSets, TLC

VARIABLES
    mass,                  \* self.mass
    resilience,            \* self.resilience
    damping,               \* self.damping
    time_modifier,         \* self.time_modifier
    current_time,          \* self.current_time
    x_position,            \* self.x_position
    velocity,              \* self.velocity
    time_data,             \* self.time_data      (deque, oldest first)
    velocity_data,         \* self.velocity_data  (deque, oldest first)
    velocity_plot_active,  \* self.velocity_plot_active
    cursor_visible,        \* visibility of cursor_point and cursor_text
    cursor_point,          \* data of cursor_point: <<>> or <<time, velocity>>
    last_call,             \* the callback that ran last ("init" after __init__)
    raised,                \* exception the last callback raised, or "none"
    setter_calls           \* number of slider callbacks delivered so far

vars == <<mass, resilience, damping, time_modifier, current_time, x_position,
          velocity, time_data, velocity_data, velocity_plot_active,
          cursor_visible, cursor_point, last_call, raised, setter_calls>>

params == <<mass, resilience, damping, time_modifier>>
cursor == <<cursor_visible, cursor_point>>
history == <<time_data, velocity_data>>

(***************************************************************************)
(* Program constants.                                                      *)
(***************************************************************************)
default_x_pos == 2000
dt == 20

(***************************************************************************)
(* Bounds of the model.  max_points is the deques' maxlen (500 in the      *)
(* source) and max_time the recording horizon (10 s in the source); the    *)
(* model is checked at a reduced capacity and horizon, chosen so that the  *)
(* slowest time scale records more than max_points samples before the      *)
(* horizon and the construction-time scale records fewer.                  *)
(***************************************************************************)
max_points == 3
max_time == 80
MaxElapsed == 100
MaxSetterCalls == 2

\* Values the sliders deliver (within each slider's valmin..valmax, on its step).
MassValues == {10, 20}
ResilienceValues == {100, 200}
DampingValues == {0, 5}
TimeValues == {5, 10, 20}
\* Values a direct caller of update_mass can pass; the method takes any number.
DirectMassValues == {-10, 0, 10}
\* Pointer positions (event.xdata) inside the velocity plot.
Queries == {30, 45}

abs(n) == IF n < 0 THEN -n ELSE n

(***************************************************************************)
(* deque(maxlen=max_points).append: drops the oldest entry when full.      *)
(***************************************************************************)
append_unbounded(dq, e) == Append(dq, e)

append(dq, e) ==
    IF Len(dq) = max_points THEN Append(Tail(dq), e) ELSE Append(dq, e)

(***************************************************************************)
(* update(), lines 192-201: the integration step.                          *)
(***************************************************************************)
acceleration(k, x, c, v, m) == (-(k * x) - c * v) \div m

effective_dt_unscaled(d, tm) == d

effective_dt(d, tm) == (d * tm) \div 10

\* velocity += acceleration * effective_dt
velocity_step(v, a, edt) == v + (a * edt) \div 1000

\* x_position += velocity * effective_dt, with the velocity just updated
position_step(x, v1, edt) == x + (v1 * edt) \div 1000

(***************************************************************************)
(* min(distances) and distances.index(...), lines 135-136.                 *)
(***************************************************************************)
RECURSIVE min(_)
min(s) ==
    IF Len(s) = 1 THEN s[1]
    ELSE LET m == min(Tail(s)) IN IF s[1] <= m THEN s[1] ELSE m

RECURSIVE index(_, _)
index(s, e) == IF s[1] = e THEN 1 ELSE 1 + index(Tail(s), e)

RECURSIVE rindex(_, _)
rindex(s, e) == IF s[Len(s)] = e THEN Len(s) ELSE rindex(SubSeq(s, 1, Len(s) - 1), e)

nearest_idx_last(line_x, x) ==
    LET distances == [i \in 1..Len(line_x) |-> abs(line_x[i] - x)]
    IN  rindex(distances, min(distances))

nearest_idx(line_x, x) ==
    LET distances == [i \in 1..Len(line_x) |-> abs(line_x[i] - x)]
    IN  index(distances, min(distances))

(***************************************************************************)
(* State after SpringMassSystem.__init__.                                  *)
(***************************************************************************)
Init ==
    /\ mass = 10
    /\ resilience = 100
    /\ damping = 5
    /\ current_time = 0
    /\ time_modifier = 10
    /\ x_position = default_x_pos
    /\ velocity = 0
    /\ time_data = <<>>
    /\ velocity_data = <<>>
    /\ velocity_plot_active = TRUE
    /\ cursor_visible = TRUE
    /\ cursor_point = <<>>
    /\ last_call = "init"
    /\ raised = "none"
    /\ setter_calls = 0

(***************************************************************************)
(* Slider callbacks: each stores the value it is given.                    *)
(***************************************************************************)
update_mass(value) ==
    /\ setter_calls < MaxSetterCalls
    /\ mass' = value
    /\ setter_calls' = setter_calls + 1
    /\ last_call' = "update_mass"
    /\ raised' = "none"
    /\ UNCHANGED <<resilience, damping, time_modifier, current_time, x_position,
                   velocity, history, velocity_plot_active, cursor>>

update_resilience(value) ==
    /\ setter_calls < MaxSetterCalls
    /\ resilience' = value
    /\ setter_calls' = setter_calls + 1
    /\ last_call' = "update_resilience"
    /\ raised' = "none"
    /\ UNCHANGED <<mass, damping, time_modifier, current_time, x_position,
                   velocity, history, velocity_plot_active, cursor>>

update_damping(value) ==
    /\ setter_calls < MaxSetterCalls
    /\ damping' = value
    /\ setter_calls' = setter_calls + 1
    /\ last_call' = "update_damping"
    /\ raised' = "none"
    /\ UNCHANGED <<mass, resilience, time_modifier, current_time, x_position,
                   velocity, history, velocity_plot_active, cursor>>

update_time_modifier(value) ==
    /\ setter_calls < MaxSetterCalls
    /\ time_modifier' = value
    /\ setter_calls' = setter_calls + 1
    /\ last_call' = "update_time_modifier"
    /\ raised' = "none"
    /\ UNCHANGED <<mass, resilience, damping, current_time, x_position,
                   velocity, history, velocity_plot_active, cursor>>

(***************************************************************************)
(* reset(event): the reset button's callback.                              *)
(***************************************************************************)
reset_keeps_history ==
    /\ x_position' = default_x_pos
    /\ velocity' = 0
    /\ current_time' = 0
    /\ velocity_plot_active' = TRUE
    /\ cursor_visible' = FALSE
    /\ last_call' = "reset"
    /\ raised' = "none"
    /\ UNCHANGED <<params, history, cursor_point, setter_calls>>

reset_keeps_velocity_data ==
    /\ x_position' = default_x_pos
    /\ velocity' = 0
    /\ current_time' = 0
    /\ time_data' = <<>>
    /\ velocity_plot_active' = TRUE
    /\ cursor_visible' = FALSE
    /\ last_call' = "reset"
    /\ raised' = "none"
    /\ UNCHANGED <<params, velocity_data, cursor_point, setter_calls>>

reset_restores_mass ==
    /\ x_position' = default_x_pos
    /\ velocity' = 0
    /\ current_time' = 0
    /\ time_data' = <<>>
    /\ velocity_data' = <<>>
    /\ velocity_plot_active' = TRUE
    /\ cursor_visible' = FALSE
    /\ mass' = 10
    /\ last_call' = "reset"
    /\ raised' = "none"
    /\ UNCHANGED <<resilience, damping, time_modifier, cursor_point, setter_calls>>

reset ==
    /\ x_position' = default_x_pos
    /\ velocity' = 0
    /\ current_time' = 0
    /\ time_data' = <<>>
    /\ velocity_data' = <<>>
    /\ velocity_plot_active' = TRUE
    /\ cursor_visible' = FALSE
    /\ last_call' = "reset"
    /\ raised' = "none"
    /\ UNCHANGED <<params, cursor_point, setter_calls>>

(***************************************************************************)
(* update(frame), lines 203-211: what the step records.  The result is the *)
(* new <<time_data, velocity_data, velocity_plot_active>>.                 *)
(***************************************************************************)
record_never_freezes(active, t, v, td, vd) ==
    IF active THEN <<append(td, t), append(vd, v), TRUE>>
    ELSE <<td, vd, active>>

record_on_freeze(active, t, v, td, vd) ==
    IF active
    THEN <<append(td, t), append(vd, v), t <= max_time>>
    ELSE <<td, vd, active>>

record(active, t, v, td, vd) ==
    IF active
    THEN IF t <= max_time
         THEN <<append(td, t), append(vd, v), active>>
         ELSE <<td, vd, FALSE>>
    ELSE <<td, vd, active>>

(***************************************************************************)
(* update(frame): one animation tick.  A mass of 0 makes the division on   *)
(* line 194 raise ZeroDivisionError before anything is assigned.           *)
(***************************************************************************)
update_old_velocity ==
    /\ current_time < MaxElapsed
    /\ mass # 0
    /\ LET a   == acceleration(resilience, x_position, damping, velocity, mass)
           edt == effective_dt(dt, time_modifier)
           v1  == velocity_step(velocity, a, edt)
           x1  == position_step(x_position, velocity, edt)
           t1  == current_time + edt
           rec == record(velocity_plot_active, t1, v1, time_data, velocity_data)
       IN  /\ velocity' = v1
           /\ x_position' = x1
           /\ current_time' = t1
           /\ time_data' = rec[1]
           /\ velocity_data' = rec[2]
           /\ velocity_plot_active' = rec[3]
           /\ raised' = "none"
    /\ last_call' = "update"
    /\ UNCHANGED <<params, cursor, setter_calls>>

update ==
    /\ current_time < MaxElapsed
    /\ IF mass = 0
       THEN /\ raised' = "ZeroDivisionError"
            /\ UNCHANGED <<velocity, x_position, current_time, history,
                           velocity_plot_active>>
       ELSE LET a   == acceleration(resilience, x_position, damping, velocity, mass)
                edt == effective_dt(dt, time_modifier)
                v1  == velocity_step(velocity, a, edt)
                x1  == position_step(x_position, v1, edt)
                t1  == current_time + edt
                rec == record(velocity_plot_active, t1, v1, time_data, velocity_data)
            IN  /\ velocity' = v1
                /\ x_position' = x1
                /\ current_time' = t1
                /\ time_data' = rec[1]
                /\ velocity_data' = rec[2]
                /\ velocity_plot_active' = rec[3]
                /\ raised' = "none"
    /\ last_call' = "update"
    /\ UNCHANGED <<params, cursor, setter_calls>>

(***************************************************************************)
(* on_mouse_move(event): inaxes says whether the pointer is over the       *)
(* velocity plot, xdata is its time coordinate.                            *)
(***************************************************************************)
on_mouse_move(inaxes, xdata) ==
    /\ IF inaxes
       THEN LET line_x == time_data
                line_y == velocity_data
            IN  IF line_x = <<>> \/ line_y = <<>>
                THEN /\ cursor_visible' = FALSE
                     /\ UNCHANGED cursor_point
                ELSE LET i == nearest_idx(line_x, xdata)
                     IN  /\ cursor_point' = <<line_x[i], line_y[i]>>
                         /\ cursor_visible' = TRUE
       ELSE /\ cursor_visible' = FALSE
            /\ UNCHANGED cursor_point
    /\ last_call' = "on_mouse_move"
    /\ raised' = "none"
    /\ UNCHANGED <<params, current_time, x_position, velocity, history,
                   velocity_plot_active, setter_calls>>

(***************************************************************************)
(* The program as the GUI drives it: the sliders deliver values of their   *)
(* ranges, the timer ticks, the button resets, the pointer moves.          *)
(***************************************************************************)
Next ==
    \/ update
    \/ reset
    \/ \E value \in MassValues : update_mass(value)
    \/ \E value \in ResilienceValues : update_resilience(value)
    \/ \E value \in DampingValues : update_damping(value)
    \/ \E value \in TimeValues : update_time_modifier(value)
    \/ \E xdata \in Queries : on_mouse_move(TRUE, xdata)
    \/ on_mouse_move(FALSE, 0)

Spec == Init /\ [][Next]_vars

(***************************************************************************)
(* The same program with update_mass called directly, with any number.     *)
(***************************************************************************)
NextDirect ==
    \/ update
    \/ reset
    \/ \E value \in DirectMassValues : update_mass(value)
    \/ \E value \in ResilienceValues : update_resilience(value)
    \/ \E value \in DampingValues : update_damping(value)
    \/ \E value \in TimeValues : update_time_modifier(value)
    \/ \E xdata \in Queries : on_mouse_move(TRUE, xdata)
    \/ on_mouse_move(FALSE, 0)

SpecDirect == Init /\ [][NextDirect]_vars

(***************************************************************************)
(* Properties.                                                             *)
(***************************************************************************)
Last(s) == s[Len(s)]

\* the at most n newest entries of s, oldest first
Latest(s, n) == IF Len(s) <= n THEN s ELSE SubSeq(s, Len(s) - n + 1, Len(s))

\* C1: the history never holds more than max_points samples, and a tick
\* that records while the buffer is full leaves exactly the max_points most
\* recent samples, in insertion order (the oldest one is evicted).
C1_HistoryBounded ==
    /\ [](Len(time_data) <= max_points /\ Len(velocity_data) <= max_points)
    /\ [][(last_call' = "update" /\ velocity_plot_active
              /\ current_time' <= max_time)
            => /\ time_data' = Latest(Append(time_data, current_time'), max_points)
               /\ velocity_data' = Latest(Append(velocity_data, velocity'), max_points)]_vars

\* a full buffer whose oldest sample is later than any first sample after a reset
C1_Evicted ==
    /\ Len(time_data) = max_points
    /\ \A tm \in TimeValues : time_data[1] > (dt * tm) \div 10

\* C2: a tick that leaves current_time > max_time leaves recording off, and
\* while recording is off no step other than reset changes the history or
\* turns recording back on.
C2_FrozenAfterHorizon ==
    /\ [][(last_call' = "update" /\ current_time' > max_time)
            => ~velocity_plot_active']_vars
    /\ [][(~velocity_plot_active /\ last_call' # "reset")
            => (~velocity_plot_active' /\ UNCHANGED history)]_vars

\* a tick taken when the previous tick had already passed the horizon
C2_TickAfterFreeze ==
    /\ last_call = "update"
    /\ ~velocity_plot_active
    /\ current_time - (dt * time_modifier) \div 10 > max_time
    /\ time_data # <<>>

\* C3: reset puts position at default_x_pos, velocity and time at 0, empties
\* both deques, turns recording on and leaves the four parameters alone.
C3_Reset ==
    [][last_call' = "reset"
        => /\ x_position' = default_x_pos
           /\ velocity' = 0
           /\ current_time' = 0
           /\ time_data' = <<>>
           /\ velocity_data' = <<>>
           /\ velocity_plot_active'
           /\ UNCHANGED params]_vars

\* a reset taken with non-default mass and time scale
C3_ResetWithChangedParams ==
    /\ last_call = "reset"
    /\ mass = 20
    /\ time_modifier = 5

\* C4: update_mass with a value <= 0 keeps the previous mass and signals a
\* ConfigurationError, so that no tick runs with mass <= 0.
C4_SetterRejectsInvalid ==
    /\ [][\A value \in DirectMassValues :
            (value <= 0 /\ update_mass(value))
                => (mass' = mass /\ raised' = "ConfigurationError")]_vars
    /\ [][last_call' = "update" => mass > 0]_vars

\* C5: with time_modifier > 0 a tick adds exactly dt * time_modifier to
\* current_time, which is more than it was; current_time goes down only in
\* reset, which sets it to 0.
C5_ElapsedTime ==
    /\ [][(last_call' = "update" /\ time_modifier > 0)
            => /\ current_time' = current_time + (dt * time_modifier) \div 10
               /\ current_time' > current_time]_vars
    /\ [][current_time' < current_time
            => (last_call' = "reset" /\ current_time' = 0)]_vars

\* a tick at a time scale other than the construction-time 1.0
C5_ScaledTick ==
    /\ last_call = "update"
    /\ time_modifier = 5
    /\ current_time = 30

\* C6: over the velocity plot, the lookup hides the cursor when the history
\* is empty; otherwise it shows the recorded pair whose time is nearest the
\* query, the one of lowest index among equally near ones.
C6_Nearest ==
    [][\A xdata \in Queries :
        on_mouse_move(TRUE, xdata)
            => IF time_data = <<>>
               THEN ~cursor_visible'
               ELSE /\ cursor_visible'
                    /\ \E i \in 1..Len(time_data) :
                        /\ cursor_point' = <<time_data[i], velocity_data[i]>>
                        /\ \A j \in 1..Len(time_data) :
                            abs(time_data[j] - xdata) >= abs(time_data[i] - xdata)
                        /\ \A j \in 1..(i - 1) :
                            abs(time_data[j] - xdata) > abs(time_data[i] - xdata)]_vars

\* the lookup answered the sample at 20 ms while the one at 40 ms is recorded
\* too: the query was 30 ms, equally far from both
C6_TieAnswered ==
    /\ last_call = "on_mouse_move"
    /\ cursor_visible
    /\ cursor_point # <<>>
    /\ cursor_point[1] = 20
    /\ \E j \in 1..Len(time_data) : time_data[j] = 40

\* C7: recording is on initially; it goes off only in a tick that takes
\* current_time from at most max_time to above it, and that tick records
\* nothing; such a tick always turns it off; it comes back on only in reset.
C7_RecordingMachine ==
    /\ [](last_call = "init" => velocity_plot_active)
    /\ [][(velocity_plot_active /\ ~velocity_plot_active')
            => /\ last_call' = "update"
               /\ current_time <= max_time
               /\ current_time' > max_time
               /\ UNCHANGED history]_vars
    /\ [][(velocity_plot_active /\ last_call' = "update"
              /\ current_time' > max_time)
            => ~velocity_plot_active']_vars
    /\ [][(~velocity_plot_active /\ velocity_plot_active')
            => last_call' = "reset"]_vars

\* the state right after the freezing tick
C7_JustFrozen ==
    /\ last_call = "update"
    /\ ~velocity_plot_active
    /\ current_time > max_time
    /\ current_time - (dt * time_modifier) \div 10 <= max_time
    /\ time_data # <<>>

\* C8: a tick takes the acceleration from the position and velocity before
\* the tick, adds acceleration * effective_dt to the velocity, then adds the
\* new velocity * effective_dt to the position; a sample recorded in the
\* tick is (current_time, velocity) after the step.
C8_EulerStep ==
    [][last_call' = "update"
        => LET a   == (-(resilience * x_position) - damping * velocity) \div mass
               edt == (dt * time_modifier) \div 10
           IN  /\ velocity' = velocity + (a * edt) \div 1000
               /\ x_position' = x_position + (velocity' * edt) \div 1000
               /\ time_data' # time_data
                    => /\ Last(time_data') = current_time'
                       /\ Last(velocity_data') = velocity']_vars

\* a recording tick taken with the mass already moving
C8_MovingTick ==
    /\ last_call = "update"
    /\ Len(velocity_data) >= 2
    /\ velocity_data[Len(velocity_data) - 1] # 0
    /\ Last(time_data) = current_time
    /\ x_position # default_x_pos

\* C9: the sample times grow from oldest to newest and none is later than
\* max_time.
C9_TimesOrdered ==
    /\ \A i, j \in 1..Len(time_data) : i < j => time_data[i] < time_data[j]
    /\ \A i \in 1..Len(time_data) : time_data[i] <= max_time

\* a buffer of several samples, frozen at the horizon
C9_FrozenTrace ==
    /\ Len(time_data) >= 2
    /\ ~velocity_plot_active

\* C10: the two deques have the same length; a step leaves both alone,
\* empties both, or appends (current_time, velocity) to both, evicting the
\* head of both or of neither; and the pair the lookup shows is an entry of
\* time_data with the entry of velocity_data at the same index.
C10_ParallelDeques ==
    /\ [](Len(time_data) = Len(velocity_data))
    /\ [][\/ UNCHANGED history
          \/ time_data' = <<>> /\ velocity_data' = <<>>
          \/ /\ time_data' = Append(time_data, current_time')
             /\ velocity_data' = Append(velocity_data, velocity')
          \/ /\ time_data # <<>>
             /\ time_data' = Append(Tail(time_data), current_time')
             /\ velocity_data' = Append(Tail(velocity_data), velocity')]_vars
    /\ [][(last_call' = "on_mouse_move" /\ cursor_point' # cursor_point)
            => \E i \in 1..Len(velocity_data) :
                  /\ i <= Len(time_data)
                  /\ cursor_point' = <<time_data[i], velocity_data[i]>>]_vars

\* the lookup answered the newest pair of a full buffer
C10_LookupInFullBuffer ==
    /\ last_call = "on_mouse_move"
    /\ cursor_visible
    /\ Len(velocity_data) = max_points
    /\ cursor_point = <<time_data[max_points], velocity_data[max_points]>>
====
